---- MODULE Spec2Model ----
(***************************************************************************)
(* Model of pymind/training.py: the multi-restart trainer `train` and the  *)
(* cost/gradient closure built by `create_costfn`.                         *)
(*                                                                         *)
(* Matrices are sequences of rows; a row is a sequence of integers.        *)
(* Floating point values are modelled by integers; float('infinity') by a  *)
(* value larger than every finite value, which is all `<` needs.           *)
(***************************************************************************)
EXTENDS Integers, Sequences, FiniteSets, TLC

(* ------------------------------ bounds --------------------------------- *)
MaxIter == 3
MaxEvals == 1

(* ------------------------- values of the model ------------------------- *)
Infinity == 1000

FunVals == {1, 2, Infinity}

\* the shapes of the weight matrices of the modelled network (train part)
NetDims == << <<2, 2>>, <<1, 2>> >>

\* flat weight vectors the minimizer may evaluate or report
VecSet == { <<1, 2, 3, 4, 5, 6>>, <<6, 5, 4, 3, 2, 1>> }

\* flat forms of the weights resetWeights may produce
ResetVecs == { <<7, 8, 9, 7, 8, 9>>, <<9, 8, 7, 9, 8, 7>> }

\* flat form of the weights of the network when train is called
EntryVec == <<0, 1, 0, 1, 0, 1>>

Exceptions == {"ValueError", "RuntimeError"}

None == [tag |-> "None"]

MkResult(s, v, f) == [tag |-> "Result", success |-> s, x |-> v, fun |-> f]

\* the results the minimizer may return: successes at every vector and cost,
\* failures at every cost
ResultSet ==
  { MkResult(TRUE, v, f) : v \in VecSet, f \in FunVals }
    \cup { MkResult(FALSE, <<1, 2, 3, 4, 5, 6>>, f) : f \in FunVals }

(* --------------------- flatten / reshape utilities --------------------- *)
RECURSIVE Concat(_)
Concat(ss) == IF ss = <<>> THEN <<>> ELSE Head(ss) \o Concat(Tail(ss))

\* all matrices unrolled in list order, row-major within each matrix
unroll_matrices(Ws) == Concat([k \in 1..Len(Ws) |-> Concat(Ws[k])])

Size(dim) == dim[1] * dim[2]

RECURSIVE Offset(_, _)
Offset(dims, k) == IF k = 1 THEN 0 ELSE Offset(dims, k - 1) + Size(dims[k - 1])

reshape_vector(v, dims) ==
  [k \in 1..Len(dims) |->
     [r \in 1..dims[k][1] |->
        [c \in 1..dims[k][2] |-> v[Offset(dims, k) + (r - 1) * dims[k][2] + c]]]]

\* nnet.dimensions: the (rows, cols) of every weight matrix
DimsOf(Ws) == [k \in 1..Len(Ws) |-> <<Len(Ws[k]), Len(Ws[k][1])>>]

ResetSet == { reshape_vector(v, NetDims) : v \in ResetVecs }

(* ------------------------------- state --------------------------------- *)
VARIABLES
  pc,              \* position in train
  iterations,      \* argument of train
  i,               \* loop counter of the restart loop
  weights,         \* nnet.weights
  dimensions,      \* local of train
  initial_weights, \* local of train
  best_result,     \* local of train
  min_error,       \* local of train
  returned,        \* value train returned, NotYet before
  raised,          \* exception train terminated with, "" if none
  results,         \* history: results returned by the minimizer, in order
  resets,          \* history: number of resetWeights calls
  mincalls,        \* history: number of minimizer calls
  restart,         \* history of the current restart
  weights0,        \* history: weights when train was entered
  cpc,             \* position in costfn
  net,             \* what the closure is bound to: network, dataset, rate
  cargs,           \* argument `weights` of costfn
  fwd,             \* z, a, cost as returned by nnet.calculateCost
  cexc,            \* exception raised inside the try block, "" if none
  craised,         \* exception costfn terminated with, "" if none
  printed,         \* number of diagnostic messages printed
  cout             \* value costfn returned, NoOutput before

trainVars == <<pc, iterations, i, dimensions, initial_weights, best_result,
               min_error, returned, raised, results, resets, mincalls, restart,
               weights0>>

costVars == <<cpc, net, cargs, fwd, cexc, craised, printed, cout>>

vars == <<pc, iterations, i, weights, dimensions, initial_weights, best_result,
          min_error, returned, raised, results, resets, mincalls, restart,
          weights0, cpc, net, cargs, fwd, cexc, craised, printed, cout>>

NotYet == [tag |-> "NotYet"]

NoRestart == [reset |-> <<>>, x0 |-> <<>>, evals |-> <<>>]

NoOutput == [tag |-> "NoOutput"]

NoForward == [a |-> <<>>, ag |-> <<>>, eg |-> <<>>, cost |-> 0]

\* the closure of train, line 40: gradient requested, network of NetDims
TrainNet == [L |-> 3, bias |-> TRUE, learn_rate |-> 0, m |-> 1,
             computeGrad |-> TRUE]

CostIdle ==
  /\ cpc = "idle"
  /\ cargs = <<>>
  /\ fwd = NoForward
  /\ cexc = ""
  /\ craised = ""
  /\ printed = 0
  /\ cout = NoOutput

Init ==
  /\ pc = "entry"
  /\ iterations \in 0..MaxIter
  /\ i = 0
  /\ weights = reshape_vector(EntryVec, NetDims)
  /\ weights0 = weights
  /\ dimensions = <<>>
  /\ initial_weights = <<>>
  /\ best_result = None
  /\ min_error = Infinity
  /\ returned = NotYet
  /\ raised = ""
  /\ results = <<>>
  /\ resets = 0
  /\ mincalls = 0
  /\ restart = NoRestart
  /\ net = TrainNet
  /\ CostIdle

(* ------------------------------- train --------------------------------- *)
\* lines 40-56: build the closure, capture dimensions, initialise the best
Setup ==
  /\ pc = "entry"
  /\ dimensions' = DimsOf(weights)
  /\ best_result' = None
  /\ min_error' = Infinity
  /\ pc' = "loop"
  /\ UNCHANGED <<iterations, i, weights, initial_weights, returned, raised,
                 results, resets, mincalls, restart, weights0>>
  /\ UNCHANGED costVars

\* line 57-58: next restart, nnet.resetWeights()
ResetWeights ==
  /\ pc = "loop"
  /\ i < iterations
  /\ \E W \in ResetSet :
       /\ weights' = W
       /\ restart' = [reset |-> W, x0 |-> <<>>, evals |-> <<>>]
  /\ resets' = resets + 1
  /\ pc' = "reset"
  /\ UNCHANGED <<iterations, i, dimensions, initial_weights, best_result,
                 min_error, returned, raised, results, mincalls, weights0>>
  /\ UNCHANGED costVars

\* variant: the flattening hoisted out of the restart loop
InitialWeights_once(w) == unroll_matrices(weights0)

\* line 59: the vector handed to the minimizer
InitialWeights(w) == unroll_matrices(w)

\* lines 59-60: flatten the weights and enter the minimizer
CallMinimizer ==
  /\ pc = "reset"
  /\ initial_weights' = InitialWeights(weights)
  /\ restart' = [restart EXCEPT !.x0 = InitialWeights(weights)]
  /\ mincalls' = mincalls + 1
  /\ pc' = "minimizer"
  /\ UNCHANGED <<iterations, i, weights, dimensions, best_result, min_error,
                 returned, raised, results, resets, weights0>>
  /\ UNCHANGED costVars

\* lines 52 and 113: the adapter reshapes its argument and costfn installs it
Install(v, dims) == reshape_vector(v, dims)

\* the minimizer evaluates flattened_costfn(v)
FlattenedCostfn ==
  /\ pc = "minimizer"
  /\ Len(restart.evals) < MaxEvals
  /\ \E v \in VecSet :
       /\ weights' = Install(v, dimensions)
       /\ restart' = [restart EXCEPT !.evals = Append(@, v)]
  /\ UNCHANGED <<pc, iterations, i, dimensions, initial_weights, best_result,
                 min_error, returned, raised, results, resets, mincalls,
                 weights0>>
  /\ UNCHANGED costVars

\* variant: `<=` in place of `<`
Better_le(result, err) == result.success /\ result.fun <= err

\* variant: the comparison with the best cost left out
Better_anysuccess(result, err) == result.success

\* line 61: the test for a new best result
Better(result, err) == result.success /\ result.fun < err

\* lines 60-63: the minimizer returns a result; keep it if it is better
MinimizerReturn ==
  /\ pc = "minimizer"
  /\ \E result \in ResultSet :
       /\ results' = Append(results, result)
       /\ IF Better(result, min_error)
            THEN best_result' = result /\ min_error' = result.fun
            ELSE UNCHANGED <<best_result, min_error>>
  /\ i' = i + 1
  /\ pc' = "loop"
  /\ UNCHANGED <<iterations, weights, dimensions, initial_weights, returned,
                 raised, resets, mincalls, restart, weights0>>
  /\ UNCHANGED costVars

\* variant: the best result so far committed on the way out (a `finally`)
MinimizerRaise_commit ==
  /\ pc = "minimizer"
  /\ \E e \in Exceptions : raised' = e
  /\ weights' = IF best_result # None
                  THEN reshape_vector(best_result.x, dimensions) ELSE weights
  /\ pc' = "raised"
  /\ UNCHANGED <<iterations, i, dimensions, initial_weights,
                 best_result, min_error, returned, results, resets, mincalls,
                 restart, weights0>>
  /\ UNCHANGED costVars

\* line 60: the minimizer raises; train has no handler, so it terminates
MinimizerRaise ==
  /\ pc = "minimizer"
  /\ \E e \in Exceptions : raised' = e
  /\ pc' = "raised"
  /\ UNCHANGED <<iterations, i, weights, dimensions, initial_weights,
                 best_result, min_error, returned, results, resets, mincalls,
                 restart, weights0>>
  /\ UNCHANGED costVars

\* variant: the commit left out
CommitWeights_skip(best, dims, w) == w

\* variant: the weights found on entry restored when nothing succeeded
CommitWeights_rollback(best, dims, w) ==
  IF best # None THEN reshape_vector(best.x, dims) ELSE weights0

\* lines 65-67: the weights of the network after the loop
CommitWeights(best, dims, w) ==
  IF best # None THEN reshape_vector(best.x, dims) ELSE w

\* lines 65-69: the loop is over; commit the best weights and return
Finish ==
  /\ pc = "loop"
  /\ i >= iterations
  /\ weights' = CommitWeights(best_result, dimensions, weights)
  /\ returned' = best_result
  /\ pc' = "done"
  /\ UNCHANGED <<iterations, i, dimensions, initial_weights, best_result,
                 min_error, raised, results, resets, mincalls, restart,
                 weights0>>
  /\ UNCHANGED costVars

Next ==
  \/ Setup
  \/ ResetWeights
  \/ CallMinimizer
  \/ FlattenedCostfn
  \/ MinimizerReturn
  \/ MinimizerRaise
  \/ Finish

Spec == Init /\ [][Next]_vars

(* ------------------------------ matrices ------------------------------- *)
\* numpy operations either yield a value or raise; val is <<>> on a raise
Ok(v) == [exc |-> "", val |-> v]

Err(e) == [exc |-> e, val |-> <<>>]

Rows(A) == Len(A)

Cols(A) == Len(A[1])

Transpose(A) == [j \in 1..Cols(A) |-> [r \in 1..Rows(A) |-> A[r][j]]]

RECURSIVE Dot(_, _, _)
Dot(u, v, k) == \* the sum of u[j] * v[j] for j in 1..k
  IF k = 0 THEN 0 ELSE u[k] * v[k] + Dot(u, v, k - 1)

\* np.matrix `*`: ValueError unless the inner dimensions agree
MatMul(A, B) ==
  IF Cols(A) # Rows(B) THEN Err("ValueError")
  ELSE Ok([r \in 1..Rows(A) |->
            [c \in 1..Cols(B) |->
               Dot(A[r], [k \in 1..Rows(B) |-> B[k][c]], Cols(A))]])

Broadcasts(n1, n2) == n1 = n2 \/ n1 = 1 \/ n2 = 1

Max(x, y) == IF x >= y THEN x ELSE y

\* np.multiply: elementwise with broadcasting, ValueError when it cannot
Multiply(A, B) ==
  IF ~(Broadcasts(Rows(A), Rows(B)) /\ Broadcasts(Cols(A), Cols(B)))
    THEN Err("ValueError")
  ELSE Ok([r \in 1..Max(Rows(A), Rows(B)) |->
            [c \in 1..Max(Cols(A), Cols(B)) |->
               A[IF Rows(A) = 1 THEN 1 ELSE r][IF Cols(A) = 1 THEN 1 ELSE c]
               * B[IF Rows(B) = 1 THEN 1 ELSE r][IF Cols(B) = 1 THEN 1 ELSE c]]])

\* M[:, b:]
SliceCols(M, b) == [r \in 1..Rows(M) |-> SubSeq(M[r], b + 1, Len(M[r]))]

Scale(k, M) == [r \in 1..Rows(M) |-> [c \in 1..Cols(M) |-> k * M[r][c]]]

\* G[:, b:] += R: R is broadcast to the shape of the slice, ValueError when
\* it cannot
IAddCols(G, b, R) ==
  IF ~( (Rows(R) = Rows(G) \/ Rows(R) = 1)
        /\ (Cols(R) = Cols(G) - b \/ Cols(R) = 1) )
    THEN Err("ValueError")
  ELSE Ok([r \in 1..Rows(G) |->
            [c \in 1..Cols(G) |->
               IF c <= b THEN G[r][c]
               ELSE G[r][c] + R[IF Rows(R) = 1 THEN 1 ELSE r]
                               [IF Cols(R) = 1 THEN 1 ELSE c - b]]])

\* element i of a Python list held as a sequence
At(q, idx) == q[idx + 1]

(* ----------------------- inputs of the cost function -------------------- *)
MaxLayers == 3
MaxM == 2

Seeds == {0, 1, 2}

LearnRates == {0, 1, 3}

\* units of layer l of the modelled networks
UnitsOf(l) == 1 + (l % 2)

\* an r x c matrix of data determined by the seed s
Fill(r, c, s) ==
  [x \in 1..r |-> [y \in 1..c |-> ((s * (x + y) + 2 * x + 3 * y) % 5) - 2]]

WeightKinds == {"ok", "extra_col", "extra_row", "missing_row", "short", "long"}

\* the shape of weight matrix idx in an argument of the given kind
ArgShape(idx, L, b, kind) ==
  << UnitsOf(idx + 1)
       + (IF kind = "extra_row" /\ idx = 0 THEN 1 ELSE 0)
       - (IF kind = "missing_row" /\ idx = 0 THEN 1 ELSE 0),
     UnitsOf(idx) + b
       + (IF kind = "extra_col" /\ idx = L - 2 THEN 1 ELSE 0) >>

ArgLen(L, kind) ==
  IF kind = "short" THEN L - 2 ELSE IF kind = "long" THEN L ELSE L - 1

\* a list of weight matrices handed to costfn
WeightsArg(L, b, kind, sd) ==
  [k \in 1..ArgLen(L, kind) |->
     Fill(ArgShape(k - 1, L, b, kind)[1], ArgShape(k - 1, L, b, kind)[2],
          IF k \in DOMAIN sd THEN sd[k] ELSE 0)]

WithBiasRow(A, b) ==
  IF b = 1 THEN <<[c \in 1..Cols(A) |-> 1]>> \o A ELSE A

\* line 117
Bias(n) == IF n.bias THEN 1 ELSE 0

\* what the network and the error function hand back for one evaluation:
\* a[l] the activations of layer l (with the bias row, but for the last),
\* ag[l] the value of layers[l].activationfn.grad(z[l]), eg the value of
\* errfn.grad(h, y) or the exception it raises, cost the scalar cost
Forward(n, s, gexc) ==
  [a |-> [k \in 1..n.L |->
            IF k < n.L THEN WithBiasRow(Fill(UnitsOf(k - 1), n.m, s + k), Bias(n))
            ELSE Fill(UnitsOf(k - 1), n.m, s + k)],
   ag |-> [k \in 1..n.L |-> Fill(UnitsOf(k - 1), n.m, s + k + 1)],
   eg |-> IF gexc = "" THEN Ok(Fill(UnitsOf(n.L - 1), n.m, s + 2)) ELSE Err(gexc),
   cost |-> s]

(* ------------------------------- costfn -------------------------------- *)
\* line 128: the delta of the last layer
SeedDelta(f, L) ==
  IF f.eg.exc # "" THEN f.eg ELSE Multiply(At(f.ag, L - 1), f.eg.val)

\* line 134: weight[:, bias:].T
BackWeight(weight, b) == Transpose(SliceCols(weight, b))

\* lines 130-134: the deque d after the loop, from index idx down to 1
RECURSIVE DeltaLoop(_, _, _, _, _)
DeltaLoop(idx, d, W, f, b) ==
  IF idx < 1 THEN Ok(d)
  ELSE IF idx + 1 > Len(W) THEN Err("IndexError")
  ELSE LET prevD == Head(d)
           back == MatMul(BackWeight(At(W, idx), b), prevD)
       IN IF back.exc # "" THEN back
          ELSE LET di == Multiply(At(f.ag, idx), back.val)
               IN IF di.exc # "" THEN di
                  ELSE DeltaLoop(idx - 1, <<di.val>> \o d, W, f, b)

\* lines 125-136: all deltas, d[0] a filler
Deltas(W, f, L, b) ==
  LET seed == SeedDelta(f, L)
  IN IF seed.exc # "" THEN seed
     ELSE LET dq == DeltaLoop(L - 2, <<seed.val>>, W, f, b)
          IN IF dq.exc # "" THEN dq ELSE Ok(<< <<>> >> \o dq.val)

\* variant: every column regularized
Regularize_all(unreg, weight, lr, b) ==
  IAddCols(unreg, 0, Scale(lr, SliceCols(weight, 0)))

\* lines 144-147: grad[:, bias:] += learn_rate * weights[i][:, bias:];
\* the common factor 1/m is kept apart, see Gradients
Regularize(unreg, weight, lr, b) ==
  IAddCols(unreg, b, Scale(lr, SliceCols(weight, b)))

\* lines 140-148: the list grads from index idx on; every entry of a
\* gradient is the stored integer divided by m
RECURSIVE GradLoop(_, _, _, _, _, _)
GradLoop(idx, W, d, f, lr, b) ==
  IF idx >= Len(W) THEN Ok(<<>>)
  ELSE IF idx + 1 >= Len(d) \/ idx >= Len(f.a) THEN Err("IndexError")
  ELSE LET unreg == MatMul(At(d, idx + 1), Transpose(At(f.a, idx)))
       IN IF unreg.exc # "" THEN unreg
          ELSE LET grad == Regularize(unreg.val, At(W, idx), lr, b)
               IN IF grad.exc # "" THEN grad
                  ELSE LET rest == GradLoop(idx + 1, W, d, f, lr, b)
                       IN IF rest.exc # "" THEN rest
                          ELSE Ok(<<grad.val>> \o rest.val)

\* lines 142-148 for all layers: m times the gradients
Gradients(W, d, f, lr, b) == GradLoop(0, W, d, f, lr, b)

\* lines 125-150: deltas, then gradients
Backpropagate(W, f, n) ==
  LET d == Deltas(W, f, n.L, Bias(n))
  IN IF d.exc # "" THEN d
     ELSE LET g == Gradients(W, d.val, f, n.learn_rate, Bias(n))
          IN IF g.exc # "" THEN g
             ELSE Ok([d |-> d.val, grads |-> g.val])

NetSet ==
  [L : 2..MaxLayers, bias : BOOLEAN, learn_rate : LearnRates, m : 1..MaxM,
   computeGrad : BOOLEAN]

InitCost ==
  /\ net \in NetSet
  /\ weights = WeightsArg(net.L, Bias(net), "ok", [k \in 1..(net.L - 1) |-> 0])
  /\ weights0 = weights
  /\ CostIdle
  /\ pc = "entry"
  /\ iterations = 0
  /\ i = 0
  /\ dimensions = <<>>
  /\ initial_weights = <<>>
  /\ best_result = None
  /\ min_error = Infinity
  /\ returned = NotYet
  /\ raised = ""
  /\ results = <<>>
  /\ resets = 0
  /\ mincalls = 0
  /\ restart = NoRestart

\* lines 111-113: costfn is called and installs its argument
CostfnCall ==
  /\ cpc = "idle"
  /\ \E kind \in WeightKinds, sd \in [1..(net.L - 1) -> Seeds] :
       /\ cargs' = WeightsArg(net.L, Bias(net), kind, sd)
       /\ weights' = cargs'
  /\ cpc' = "forward"
  /\ UNCHANGED <<net, fwd, cexc, craised, printed, cout>>
  /\ UNCHANGED trainVars

\* lines 116-121: the forward evaluation returns
CalculateCost ==
  /\ cpc = "forward"
  /\ \E s \in Seeds, gexc \in {"", "ValueError"} : fwd' = Forward(net, s, gexc)
  /\ cpc' = "evaluated"
  /\ UNCHANGED <<net, cargs, cexc, craised, printed, cout, weights>>
  /\ UNCHANGED trainVars

\* line 120: the forward evaluation raises
CalculateCostRaise ==
  /\ cpc = "forward"
  /\ \E e \in Exceptions : cexc' = e
  /\ cpc' = "except"
  /\ UNCHANGED <<net, cargs, fwd, craised, printed, cout, weights>>
  /\ UNCHANGED trainVars

\* lines 123-150: backpropagation, returning (cost, grads) or raising; the
\* gradients are grads divided by den
Backprop ==
  /\ cpc = "evaluated"
  /\ net.computeGrad
  /\ LET r == Backpropagate(cargs, fwd, net)
     IN IF r.exc = ""
          THEN /\ cout' = [tag |-> "CostGrads", cost |-> fwd.cost,
                           grads |-> r.val.grads, den |-> net.m,
                           d |-> r.val.d]
               /\ cpc' = "returned"
               /\ cexc' = cexc
          ELSE /\ cexc' = r.exc
               /\ cpc' = "except"
               /\ cout' = cout
  /\ UNCHANGED <<net, cargs, fwd, craised, printed, weights>>
  /\ UNCHANGED trainVars

\* lines 151-152: no gradient requested
ReturnCost ==
  /\ cpc = "evaluated"
  /\ ~net.computeGrad
  /\ cout' = [tag |-> "Cost", cost |-> fwd.cost]
  /\ cpc' = "returned"
  /\ UNCHANGED <<net, cargs, fwd, cexc, craised, printed, weights>>
  /\ UNCHANGED trainVars

\* variant: the error printed and swallowed
HandleValueError_swallow ==
  /\ cpc = "except"
  /\ cexc = "ValueError"
  /\ printed' = printed + 1
  /\ cout' = [tag |-> "Cost", cost |-> 0]
  /\ cpc' = "returned"
  /\ UNCHANGED <<net, cargs, fwd, cexc, craised, weights>>
  /\ UNCHANGED trainVars

\* lines 153-155: a ValueError is reported and raised again
HandleValueError ==
  /\ cpc = "except"
  /\ cexc = "ValueError"
  /\ printed' = printed + 1
  /\ craised' = cexc
  /\ cpc' = "raised"
  /\ UNCHANGED <<net, cargs, fwd, cexc, cout, weights>>
  /\ UNCHANGED trainVars

\* line 153: any other exception passes the handler by
Propagate ==
  /\ cpc = "except"
  /\ cexc # "ValueError"
  /\ craised' = cexc
  /\ cpc' = "raised"
  /\ UNCHANGED <<net, cargs, fwd, cexc, printed, cout, weights>>
  /\ UNCHANGED trainVars

NextCost ==
  \/ CostfnCall
  \/ CalculateCost
  \/ CalculateCostRaise
  \/ Backprop
  \/ ReturnCost
  \/ HandleValueError
  \/ Propagate

SpecCost == InitCost /\ [][NextCost]_vars

(* ------------------- the restart loop as a function -------------------- *)
\* lines 57-63 applied to a whole sequence of minimizer results
RECURSIVE RunLoop(_, _, _)
RunLoop(rs, best, err) ==
  IF rs = <<>> THEN best
  ELSE IF Better(Head(rs), err)
         THEN RunLoop(Tail(rs), Head(rs), Head(rs).fun)
         ELSE RunLoop(Tail(rs), best, err)

\* lines 55-69: what train returns for the minimizer results rs
TrainResult(rs) == RunLoop(rs, None, Infinity)

(* ------------------------------ properties ----------------------------- *)
SuccIdx(rs) == { k \in 1..Len(rs) : rs[k].success }

AllFinite(rs) == \A k \in 1..Len(rs) : rs[k].fun < Infinity

\* what the last restart left in the network
LeftByRestart ==
  IF restart.evals = <<>> THEN restart.reset
  ELSE reshape_vector(restart.evals[Len(restart.evals)], dimensions)

\* the permutations of 1..n, for every number n of restarts
PermsUpTo ==
  [n \in 0..MaxIter |->
     { p \in [1..n -> 1..n] : \A a, b \in 1..n : p[a] = p[b] => a = b }]

Perms(n) == PermsUpTo[n]

Permute(rs, p) == [k \in 1..Len(rs) |-> rs[p[k]]]

SameCost(a, b) ==
  \/ a = None /\ b = None
  \/ a # None /\ b # None /\ a.fun = b.fun

\* C1: with finite fun values train returns the successful result of minimum
\* fun, the first one on ties, and None when no result is successful.
C1_BestOfN ==
  (pc = "done" /\ AllFinite(results)) =>
    IF SuccIdx(results) = {} THEN returned = None
    ELSE \E k \in SuccIdx(results) :
           /\ \A j \in SuccIdx(results) : results[k].fun <= results[j].fun
           /\ \A j \in SuccIdx(results) : j < k => results[j].fun > results[k].fun
           /\ returned = results[k]

C1_Witness ==
  /\ pc = "done" /\ AllFinite(results)
  /\ \E j, k \in SuccIdx(results) :
       /\ j < k
       /\ results[j].fun = results[k].fun
       /\ results[j].x # results[k].x
       /\ \A l \in SuccIdx(results) : results[j].fun <= results[l].fun
       /\ returned = results[j]

\* C2: when train returns a result R, the weights of the network are
\* reshape(R.x, dimensions), dimensions being the shapes captured on entry,
\* whatever the minimizer evaluated in later restarts.
C2_CommitBest ==
  (pc = "done" /\ returned # None) =>
    /\ dimensions = DimsOf(weights0)
    /\ weights = reshape_vector(returned.x, dimensions)

C2_Witness ==
  /\ pc = "done" /\ returned # None
  /\ Len(results) >= 2
  /\ returned # results[Len(results)]
  /\ restart.evals # <<>>
  /\ restart.evals[Len(restart.evals)] # returned.x
  /\ weights = reshape_vector(returned.x, dimensions)

\* C3 (as claimed): if some restart's result has success = true, whatever its
\* fun, train returns a result and not None.
C3_NoneOnlyIfAllFail ==
  (pc = "done" /\ SuccIdx(results) # {}) => returned # None

\* C6: when train returns None after at least one restart, the weights are
\* what the last restart left: the reshape of the argument of its last adapter
\* evaluation, or its freshly reset weights if there was no evaluation.
C6_NoneLeavesLastRestart ==
  (pc = "done" /\ returned = None /\ iterations >= 1) =>
    weights = LeftByRestart

C6_Witness ==
  /\ pc = "done" /\ returned = None /\ iterations >= 1
  /\ restart.evals # <<>>
  /\ weights # restart.reset
  /\ weights # weights0

\* C7 (as claimed): train returns the same result under every ordering of
\* the minimizer results.
C7_OrderIrrelevant ==
  pc = "done" =>
    \A p \in Perms(Len(results)) : TrainResult(Permute(results, p)) = returned

\* C7 (amended): under every ordering train returns None or a result of the
\* same fun, and the same result when every successful result of that fun is
\* that result.
C7_OrderIrrelevantCost ==
  pc = "done" =>
    \A p \in Perms(Len(results)) :
      /\ SameCost(TrainResult(Permute(results, p)), returned)
      /\ (/\ returned # None
          /\ \A k \in SuccIdx(results) :
               results[k].fun = returned.fun => results[k] = returned)
         => TrainResult(Permute(results, p)) = returned

C7_Witness ==
  /\ pc = "done" /\ returned # None
  /\ Len(results) >= 2
  /\ \E p \in Perms(Len(results)) :
       /\ Permute(results, p) # results
       /\ TrainResult(Permute(results, p)) # returned
       /\ SameCost(TrainResult(Permute(results, p)), returned)

\* C8: when the minimizer raises in restart k, train ends with that failure:
\* no further restart, no return value, and no commit of an earlier best
\* result, the weights staying as the failing restart left them.
C8_CrashPropagates ==
  /\ [](pc = "raised" =>
          /\ raised \in Exceptions
          /\ returned = NotYet
          /\ resets = i + 1 /\ mincalls = i + 1 /\ Len(results) = i
          /\ weights = LeftByRestart)
  /\ [][pc = "raised" => UNCHANGED vars]_vars

C8_Witness ==
  /\ pc = "raised" /\ i >= 1
  /\ i + 1 < iterations
  /\ best_result # None
  /\ weights # reshape_vector(best_result.x, dimensions)

\* C10: train alternates resetWeights and minimizer calls, one of each per
\* restart and iterations of each in all, success or not; each minimizer call
\* gets the flattening of the weights of its own reset; with iterations = 0
\* nothing is called, the weights are unchanged and None is returned.
C10_RestartProtocol ==
  /\ resets - mincalls = (IF pc = "reset" THEN 1 ELSE 0)
  /\ mincalls - Len(results) = (IF pc \in {"minimizer", "raised"} THEN 1 ELSE 0)
  /\ pc \in {"minimizer", "raised"} =>
       /\ initial_weights = unroll_matrices(restart.reset)
       /\ restart.x0 = initial_weights
  /\ pc = "done" =>
       /\ resets = iterations /\ mincalls = iterations
       /\ Len(results) = iterations
       /\ iterations = 0 => (weights = weights0 /\ returned = None)

C10_Witness ==
  /\ pc = "minimizer"
  /\ i >= 1
  /\ results[1].success
  /\ weights0 # restart.reset
  /\ initial_weights = unroll_matrices(restart.reset)

\* the list Ws with the bias column (column 0) of every matrix set to v
SetBiasCol(Ws, v) ==
  [k \in 1..Len(Ws) |->
     [r \in 1..Rows(Ws[k]) |->
        [c \in 1..Cols(Ws[k]) |-> IF c = 1 THEN v ELSE Ws[k][r][c]]]]

GradsReturned == cpc = "returned" /\ cout.tag = "CostGrads"

\* C5: with bias = True the bias column of every returned gradient is that
\* of d[i+1] * a[i]^T alone (over m), the same for every learn_rate; every
\* other column has learn_rate * W[i] (over m) of that column added; and the
\* deltas do not depend on the bias columns of the weights.
C5_BiasExcluded ==
  (GradsReturned /\ net.bias) =>
    /\ cout.den = net.m
    /\ \A idx \in 0..(Len(cargs) - 1) :
         LET unreg == MatMul(At(cout.d, idx + 1), Transpose(At(fwd.a, idx))).val
             g == At(cout.grads, idx)
             W == At(cargs, idx)
         IN /\ Rows(g) = Rows(unreg) /\ Cols(g) = Cols(unreg)
            /\ \A r \in 1..Rows(g) : g[r][1] = unreg[r][1]
            /\ (Rows(W) = Rows(g) /\ Cols(W) = Cols(g)) =>
                 \A r \in 1..Rows(g) : \A c \in 2..Cols(g) :
                   g[r][c] = unreg[r][c] + net.learn_rate * W[r][c]
    /\ \A lr \in LearnRates :
         LET other == Backpropagate(cargs, fwd, [net EXCEPT !.learn_rate = lr])
         IN /\ other.exc = ""
            /\ \A idx \in 0..(Len(cargs) - 1) :
                 \A r \in 1..Rows(At(cout.grads, idx)) :
                   At(other.val.grads, idx)[r][1] = At(cout.grads, idx)[r][1]
    /\ \A v \in {-1, 0, 2} :
         Deltas(SetBiasCol(cargs, v), fwd, net.L, 1) = Ok(cout.d)

C5_Witness ==
  /\ GradsReturned /\ net.bias
  /\ net.L = 3 /\ net.m = 2 /\ net.learn_rate = 3
  /\ Len(cargs) = 2
  /\ \A k \in 1..2 : \E r \in 1..Rows(cargs[k]) :
       /\ cargs[k][r][1] # 0
       /\ cargs[k][r][2] # 0
       /\ cout.grads[k][r][1] # 0
  /\ \E c \in 1..2 : At(cout.d, 1)[1][c] # 0

\* C9: a ValueError raised inside costfn, by the forward evaluation or by
\* backpropagation, is reported once and raised again as it is; costfn
\* returns nothing for that call.
C9_ValueErrorReraised ==
  /\ printed <= 1
  /\ cexc = "ValueError" => (cpc \in {"except", "raised"} /\ cout = NoOutput)
  /\ (cpc = "raised" /\ cexc = "ValueError") =>
       (printed = 1 /\ craised = "ValueError")
  /\ cpc = "returned" => (printed = 0 /\ cexc = "" /\ craised = "")

C9_Witness ==
  /\ cpc = "raised" /\ cexc = "ValueError"
  /\ printed = 1 /\ craised = "ValueError"
  /\ fwd # NoForward
  /\ fwd.eg.exc = ""
  /\ cout = NoOutput

====
